---- MODULE Spec2Model ----
(***************************************************************************)
(* Model of python/geotag_from_gpx.py: the bearing normaliser, the EXIF    *)
(* capture-time reader, the sub-second time estimator, the GPX track       *)
(* loader and the batch loop of the script body.                           *)
(*                                                                         *)
(* Time is counted in ticks, Res ticks to the second (the source works at  *)
(* datetime's microsecond resolution; every comparison and every sum of    *)
(* the source is kept, only the grain is coarser).  Angles are whole       *)
(* degrees.  Python's % with a positive modulus and TLA+'s % agree: both   *)
(* give a result in 0..m-1 for every sign of the left operand.             *)
(***************************************************************************)
EXTENDS Integers, Sequences, FiniteSets

VARIABLES
    pc,               \* position in the script body
    file_list,        \* the EXIF capture-time tags of the images, in list order
    interval,         \* --interval, in ticks
    time_offset,      \* --time-offset, in ticks
    bearing_offset,   \* --bearing-offset, in degrees
    use_localtime,    \* --localtime
    sub_second_times, \* what estimate_sub_second_time returned
    gpx_tracks,       \* points of gpx.tracks, in iteration order
    gpx_waypoints,    \* points of gpx.waypoints
    gpx,              \* what get_lat_lon_time returned
    idx,              \* position of the for loop over zip(file_list, sub_second_times)
    calls,            \* images add_exif_using_timestamp was called for, in call order
    written,          \* images whose metadata.write() ran, in order
    skipped,          \* images reported with "Skipping"
    bearing,          \* last bearing handed to add_bearing_offset
    r,                \* last result of add_bearing_offset
    exit_status       \* process exit status once the run has ended

vars == <<pc, file_list, interval, time_offset, bearing_offset, use_localtime,
          sub_second_times, gpx_tracks, gpx_waypoints, gpx, idx, calls,
          written, skipped, bearing, r, exit_status>>

----------------------------------------------------------------------------
(* Bounds of the model *)

Res == 4            \* ticks per second
MaxSec == 3         \* largest DateTimeOriginal, in seconds
MaxFiles == 3       \* longest file list handed to the estimator alone
MaxInterval == 5    \* largest --interval, in ticks
MaxBatch == 3       \* longest file list of a whole run
MaxTrackPts == 2    \* most track-segment points in a GPX file
MaxWaypoints == 1   \* most waypoints in a GPX file
MaxPointTime == 2   \* largest point time in a GPX file, in ticks
MaxDeg == 365       \* largest magnitude of a bearing handed to the normaliser
MaxOffset == 20     \* largest magnitude of a small bearing offset
TzOffset == 1       \* local time minus UTC on the host, in ticks

FullTurn == 360

----------------------------------------------------------------------------
(* Helpers *)

Max(a, b) == IF a >= b THEN a ELSE b
Min(a, b) == IF a <= b THEN a ELSE b
Abs(a) == IF a >= 0 THEN a ELSE -a

RECURSIVE SeqsUpTo(_, _)
SeqsUpTo(S, n) ==
    IF n = 0 THEN {<<>>}
    ELSE LET shorter == SeqsUpTo(S, n - 1)
         IN  shorter \cup {Append(s, x) : s \in shorter, x \in S}

----------------------------------------------------------------------------
(* Bearing Normalizer: add_bearing_offset, lines 69-78 *)

add_bearing_offset(b, offset) ==
    LET sum == b + offset
    IN  IF sum >= 0 /\ sum < FullTurn THEN sum
        ELSE IF sum >= FullTurn THEN sum % FullTurn
        ELSE -((-sum) % FullTurn)

----------------------------------------------------------------------------
(* EXIF capture time: exif_time, lines 130-145 *)

\* An EXIF tag as pyexiv2 presents it: readable with a value, absent
\* (KeyError on lookup), or unreadable (ValueError on conversion).
Tag(v) == [st |-> "ok", v |-> v]
NoTag == [st |-> "missing", v |-> 0]
BadTag == [st |-> "malformed", v |-> 0]

\* One image: its Exif.Photo.DateTimeOriginal (whole seconds) and its
\* Exif.Photo.SubSecTimeOriginal (ticks).
Image(dto, subsec) == [dto |-> dto, subsec |-> subsec]

\* exif_time(filename).  The try block assigns image_time first and
\* image_millisec second; both handlers only print.  When the first lookup
\* fails image_time stays unbound and line 144 raises UnboundLocalError.
exif_time(f) ==
    IF f.dto.st # "ok"
    THEN [ok |-> FALSE, t |-> 0]
    ELSE LET image_millisec == IF f.subsec.st = "ok" THEN f.subsec.v ELSE 0
         IN  [ok |-> TRUE, t |-> f.dto.v * Res + image_millisec]

ExifTimes(files) == [i \in 1..Len(files) |-> exif_time(files[i]).t]
AllReadable(files) == \A i \in 1..Len(files) : exif_time(files[i]).ok

----------------------------------------------------------------------------
(* Sub-Second Time Estimator: estimate_sub_second_time, lines 148-176 *)

onesecond == Res

\* Mutant of HalfOf: the division by 2 of line 175 is forgotten.
HalfOfUndivided(d, rounding) == d

\* (smax - smin) / 2 on datetime.timedelta: Python 2 floors to the
\* resolution, Python 3 rounds half to even.  d >= 0 wherever it is used.
HalfOf(d, rounding) ==
    LET q == d \div 2
    IN  IF d % 2 = 0 \/ rounding = "floor" THEN q
        ELSE IF q % 2 = 0 THEN q ELSE q + 1

\* <<smin, smax>> after the loop of lines 161-169 has handled images 1..i
\* (the source counts from 0: its i is i - 1 here).
RECURSIVE Window(_, _, _)
Window(m, T, i) ==
    IF i = 1 THEN <<m[1], m[1] + onesecond>>
    ELSE LET w == Window(m, T, i - 1)
             m0 == m[i] - T * (i - 1)
         IN  <<Max(w[1], m0), Min(w[2], m0 + onesecond)>>

ListResult(times) == [kind |-> "list", times |-> times]
NoneResult == [kind |-> "None", times |-> <<>>]
RaiseResult == [kind |-> "raise", times |-> <<>>]
NotRun == [kind |-> "unset", times |-> <<>>]

estimate_sub_second_time(files, intv, rounding) ==
    IF intv <= 0
    THEN IF AllReadable(files) THEN ListResult(ExifTimes(files))
         ELSE RaiseResult                            \* exif_time raised
    ELSE IF ~AllReadable(files) THEN RaiseResult     \* exif_time raised
    ELSE IF files = <<>> THEN RaiseResult            \* smin unbound at line 171
    ELSE LET T == intv
             w == Window(ExifTimes(files), T, Len(files))
             smin == w[1]
             smax == w[2]
         IN  IF smin > smax THEN NoneResult
             ELSE LET s == smin + HalfOf(smax - smin, rounding)
                  IN  ListResult([i \in 1..Len(files) |-> s + T * (i - 1)])

----------------------------------------------------------------------------
(* Track Loader: get_lat_lon_time, lines 32-66 *)

\* A point is the tuple the source appends: <<time, lat, lon, elevation>>.
Point(t, lat, lon, ele) == <<t, lat, lon, ele>>

\* lib.geo.utc_to_localtime: shifts a UTC time to the host's local time.
utc_to_localtime(t) == t + TzOffset

\* Python's order on tuples of equal length: the first differing element decides.
TupleLess(p, q) ==
    \E k \in 1..Len(p) :
        /\ \A j \in 1..(k - 1) : p[j] = q[j]
        /\ p[k] < q[k]

\* list.sort(): stable, ascending.  Insert places p behind every element
\* that is not greater than it.
RECURSIVE Insert(_, _)
Insert(p, sorted) ==
    IF sorted = <<>> THEN <<p>>
    ELSE IF TupleLess(p, Head(sorted)) THEN <<p>> \o sorted
    ELSE <<Head(sorted)>> \o Insert(p, Tail(sorted))

RECURSIVE Sort(_)
Sort(points) ==
    IF points = <<>> THEN <<>>
    ELSE Insert(points[Len(points)], Sort(SubSeq(points, 1, Len(points) - 1)))

\* Lines 52-55 and 58-61: the tuple appended for one parsed point.
Appended(point, localtime) ==
    IF localtime
    THEN Point(utc_to_localtime(point[1]), point[2], point[3], point[4])
    ELSE point

AppendAll(points, localtime) ==
    [i \in 1..Len(points) |-> Appended(points[i], localtime)]

\* Mutant of get_lat_lon_time: line 56 reads "elif", so waypoints are only
\* taken when there is no track.
get_lat_lon_time_elif(tracks, waypoints, localtime) ==
    LET fromTracks == IF Len(tracks) > 0 THEN AppendAll(tracks, localtime) ELSE <<>>
        fromWaypoints == IF Len(tracks) = 0 /\ Len(waypoints) > 0
                         THEN AppendAll(waypoints, localtime) ELSE <<>>
    IN  Sort(fromTracks \o fromWaypoints)

\* tracks: the points of every segment of every track, in the order the
\* nested loops of lines 49-51 visit them.
get_lat_lon_time(tracks, waypoints, localtime) ==
    LET fromTracks == IF Len(tracks) > 0 THEN AppendAll(tracks, localtime) ELSE <<>>
        fromWaypoints == IF Len(waypoints) > 0 THEN AppendAll(waypoints, localtime) ELSE <<>>
    IN  Sort(fromTracks \o fromWaypoints)

----------------------------------------------------------------------------
(* Position Interpolator: lib.geo.interpolate_lat_lon, called at line 93 *)

\* The bearings the interpolator may report for a query inside the track.
InterpBearings == {5, 350}

\* Outcome of interpolate_lat_lon(points, t): no extrapolation, so a query
\* before the first or after the last point raises the out-of-range error
\* (a ValueError, the one error line 126 catches); an empty track has no
\* first point to compare with and is a usage error of another kind.
interpolate_lat_lon(points, t, b) ==
    IF points = <<>> THEN [kind |-> "usage_error", bearing |-> 0]
    ELSE IF t < points[1][1] \/ t > points[Len(points)][1]
    THEN [kind |-> "out_of_range", bearing |-> 0]
    ELSE [kind |-> "fix", bearing |-> b]

----------------------------------------------------------------------------
(* Tag Writer: add_exif_using_timestamp, lines 81-127 *)

\* Mutant of add_exif_using_timestamp: the except clause of line 126 is
\* missing, so the out-of-range error leaves the function.
add_exif_using_timestamp_uncaught(time, points, offset_time, b_offset, b) ==
    LET t == time - offset_time
        fix == interpolate_lat_lon(points, t, b)
    IN  IF fix.kind = "fix"
        THEN [kind |-> "written", bearing |-> fix.bearing,
              direction |-> add_bearing_offset(fix.bearing, b_offset)]
        ELSE [kind |-> "raise", bearing |-> 0, direction |-> 0]

\* Outcome of add_exif_using_timestamp for one image.  b is the bearing the
\* interpolator reports should the query fall inside the track.
add_exif_using_timestamp(time, points, offset_time, b_offset, b) ==
    LET t == time - offset_time
        fix == interpolate_lat_lon(points, t, b)
    IN  IF fix.kind = "fix"
        THEN [kind |-> "written", bearing |-> fix.bearing,
              direction |-> add_bearing_offset(fix.bearing, b_offset)]
        ELSE IF fix.kind = "out_of_range"
        THEN [kind |-> "skipped", bearing |-> 0, direction |-> 0]    \* except ValueError
        ELSE [kind |-> "raise", bearing |-> 0, direction |-> 0]      \* not caught

----------------------------------------------------------------------------
(* The script body, lines 213-250 *)

\* Mutant of ExitCheck: line 238 reads "if sub_second_times == []".
ExitCheckEmptyOnly(res) == res.kind = "list" /\ res.times = <<>>

\* "if not sub_second_times" at line 238: None and the empty list are falsy.
ExitCheck(res) == res.kind = "None" \/ (res.kind = "list" /\ res.times = <<>>)

Roundings == {"floor", "half_even"}

\* Lines 220-239: the file list is read, the capture times are estimated,
\* and the run exits with status 1 when the result is falsy.  An exception
\* nobody catches ends the interpreter with status 1 as well.
EstimateStep(files, rounding) ==
    /\ pc = "estimate"
    /\ file_list' = files
    /\ LET res == estimate_sub_second_time(files, interval, rounding)
       IN  /\ sub_second_times' = res
           /\ IF res.kind = "raise"
              THEN pc' = "crashed" /\ exit_status' = 1
              ELSE IF ExitCheck(res)
              THEN pc' = "exited" /\ exit_status' = 1
              ELSE pc' = "load" /\ UNCHANGED exit_status
    /\ UNCHANGED <<interval, time_offset, bearing_offset, use_localtime,
                   gpx_tracks, gpx_waypoints, gpx, idx, calls, written,
                   skipped, bearing, r>>

\* Mutant of LoadStep: the script refuses an empty track and ends the run
\* before the loop.
LoadStepFailFast(tracks, waypoints) ==
    /\ pc = "load"
    /\ gpx_tracks' = tracks
    /\ gpx_waypoints' = waypoints
    /\ gpx' = get_lat_lon_time(tracks, waypoints, use_localtime)
    /\ IF gpx' = <<>>
       THEN pc' = "crashed" /\ exit_status' = 1 /\ UNCHANGED idx
       ELSE pc' = "tag" /\ idx' = 1 /\ UNCHANGED exit_status
    /\ UNCHANGED <<file_list, interval, time_offset, bearing_offset,
                   use_localtime, sub_second_times, calls, written, skipped,
                   bearing, r>>

\* Lines 241-245: the GPX file is parsed and get_lat_lon_time is called.
LoadStep(tracks, waypoints) ==
    /\ pc = "load"
    /\ gpx_tracks' = tracks
    /\ gpx_waypoints' = waypoints
    /\ gpx' = get_lat_lon_time(tracks, waypoints, use_localtime)
    /\ pc' = "tag"
    /\ idx' = 1
    /\ UNCHANGED <<file_list, interval, time_offset, bearing_offset,
                   use_localtime, sub_second_times, calls, written, skipped,
                   bearing, r, exit_status>>

\* Lines 247-248: one iteration of the loop over zip(file_list, sub_second_times).
TagStep(b) ==
    /\ pc = "tag"
    /\ idx <= Min(Len(file_list), Len(sub_second_times.times))
    /\ LET res == add_exif_using_timestamp(sub_second_times.times[idx], gpx,
                                           time_offset, bearing_offset, b)
       IN  /\ calls' = Append(calls, idx)
           /\ written' = IF res.kind = "written" THEN Append(written, idx) ELSE written
           /\ skipped' = IF res.kind = "skipped" THEN Append(skipped, idx) ELSE skipped
           /\ bearing' = IF res.kind = "written" THEN res.bearing ELSE bearing
           /\ r' = IF res.kind = "written" THEN res.direction ELSE r
           /\ IF res.kind = "raise"
              THEN pc' = "crashed" /\ exit_status' = 1 /\ UNCHANGED idx
              ELSE idx' = idx + 1 /\ UNCHANGED <<pc, exit_status>>
    /\ UNCHANGED <<file_list, interval, time_offset, bearing_offset,
                   use_localtime, sub_second_times, gpx_tracks, gpx_waypoints, gpx>>

\* Line 250: the loop is over, the script prints its summary and ends.
Finish ==
    /\ pc = "tag"
    /\ idx > Min(Len(file_list), Len(sub_second_times.times))
    /\ pc' = "done"
    /\ exit_status' = 0
    /\ UNCHANGED <<file_list, interval, time_offset, bearing_offset,
                   use_localtime, sub_second_times, gpx_tracks, gpx_waypoints,
                   gpx, idx, calls, written, skipped, bearing, r>>

\* State before the script body runs, for the given command-line arguments.
Start(at, intervals, timeOffsets, bearingOffsets) ==
    /\ pc = at
    /\ interval \in intervals
    /\ time_offset \in timeOffsets
    /\ bearing_offset \in bearingOffsets
    /\ use_localtime \in BOOLEAN
    /\ file_list = <<>>
    /\ sub_second_times = NotRun
    /\ gpx_tracks = <<>>
    /\ gpx_waypoints = <<>>
    /\ gpx = <<>>
    /\ idx = 0
    /\ calls = <<>>
    /\ written = <<>>
    /\ skipped = <<>>
    /\ bearing = 0
    /\ r = 0
    /\ exit_status = -1

----------------------------------------------------------------------------
(* Spec: a whole run of the script *)

RunImages ==
    {Image(Tag(0), NoTag), Image(Tag(1), NoTag),
     Image(NoTag, NoTag), Image(BadTag, Tag(1))}
RunPoints == {Point(0, 0, 0, 0), Point(onesecond, 1, 1, 1)}
RunWaypoints == {Point(2 * onesecond, 2, 2, 2)}

Init == Start("estimate", {0, onesecond, 2 * onesecond}, {0, onesecond}, {0, -10})

Estimate ==
    /\ pc = "estimate"
    /\ \E files \in SeqsUpTo(RunImages, MaxBatch), rounding \in Roundings :
         EstimateStep(files, rounding)

Load ==
    /\ pc = "load"
    /\ \E tracks \in SeqsUpTo(RunPoints, MaxTrackPts),
       waypoints \in SeqsUpTo(RunWaypoints, MaxWaypoints) :
        LoadStep(tracks, waypoints)

Geotag == pc = "tag" /\ \E b \in InterpBearings : TagStep(b)

Next == Estimate \/ Load \/ Geotag \/ Finish

Spec == Init /\ [][Next]_vars

----------------------------------------------------------------------------
(* SpecEstimate: estimate_sub_second_time over every file list *)

Images == {Image(Tag(s), ss) : s \in 0..MaxSec, ss \in {NoTag, Tag(1)}}

InitEstimate == Start("estimate", (-1)..MaxInterval, {0}, {0})

EstimateAny ==
    /\ pc = "estimate"
    /\ \E files \in SeqsUpTo(Images, MaxFiles), rounding \in Roundings :
         EstimateStep(files, rounding)

SpecEstimate == InitEstimate /\ [][EstimateAny]_vars

----------------------------------------------------------------------------
(* SpecTrack: get_lat_lon_time over every track source *)

Points == {Point(t, lat, 0, 0) : t \in 0..MaxPointTime, lat \in 0..1}

InitTrack == Start("load", {0}, {0}, {0})

LoadAny ==
    /\ pc = "load"
    /\ \E tracks \in SeqsUpTo(Points, MaxTrackPts),
       waypoints \in SeqsUpTo(Points, MaxWaypoints) :
        LoadStep(tracks, waypoints)

SpecTrack == InitTrack /\ [][LoadAny]_vars

----------------------------------------------------------------------------
(* SpecBearing: add_bearing_offset over bearings and offsets *)

Offsets == ((-MaxOffset)..MaxOffset) \cup {-FullTurn, FullTurn}

InitBearing == Start("bearing", {0}, {0}, {0})

AddBearingOffset ==
    /\ pc = "bearing"
    /\ \E b \in (-MaxDeg)..MaxDeg, offset \in Offsets :
        /\ bearing' = b
        /\ bearing_offset' = offset
        /\ r' = add_bearing_offset(b, offset)
    /\ pc' = "returned"
    /\ UNCHANGED <<file_list, interval, time_offset, use_localtime,
                   sub_second_times, gpx_tracks, gpx_waypoints, gpx, idx,
                   calls, written, skipped, exit_status>>

SpecBearing == InitBearing /\ [][AddBearingOffset]_vars

----------------------------------------------------------------------------
(* Properties *)

Range(s) == {s[i] : i \in DOMAIN s}
Count(p, s) == Cardinality({i \in DOMAIN s : s[i] = p})

\* C1: for every bearing and offset, the result of add_bearing_offset lies
\* in [0, 360).
C1_ResultInRange ==
    pc = "returned" => (0 <= r /\ r < FullTurn)

\* C2: for every bearing b, add_bearing_offset(b, 360) equals
\* add_bearing_offset(b, 0).
C2_FullTurnChangesNothing ==
    (pc = "returned" /\ bearing_offset = FullTurn)
        => r = add_bearing_offset(bearing, 0)

\* Some base puts every image i inside its own second:
\* m[i] <= base + i * T < m[i] + 1s (i counted from 0).
Feasible(m, T) ==
    \E base \in m[1]..(m[1] + onesecond - 1) :
        \A i \in 1..Len(m) :
            /\ m[i] <= base + (i - 1) * T
            /\ base + (i - 1) * T < m[i] + onesecond

Estimated == pc # "estimate" /\ interval > 0 /\ file_list # <<>>

\* C3: for a non-empty list of recorded times and interval > 0, the
\* estimator returns None whenever no base fits every image's window
\* [m_i, m_i + 1s), and never returns a refined time outside its image's window.
C3_FailsWhenInfeasible ==
    (Estimated /\ AllReadable(file_list)) =>
        LET m == ExifTimes(file_list)
        IN  /\ ~Feasible(m, interval) => sub_second_times.kind = "None"
            /\ sub_second_times.kind = "list" =>
                 \A i \in 1..Len(m) :
                    /\ m[i] <= sub_second_times.times[i]
                    /\ sub_second_times.times[i] < m[i] + onesecond

\* The recorded times are floor(base + i * T), in whole seconds.
Synthetic(m, base, T) ==
    \A i \in 1..Len(m) :
        m[i] = ((base + (i - 1) * T) \div onesecond) * onesecond

Bases == 0..((MaxSec + 1) * Res - 1)

\* C4: when the recorded times are floor(base + i * interval) for some base
\* and interval > 0, the estimator returns one time per image,
\* base' + i * interval, with |base' - base| <= 0.5s.
C4_RecoversBase ==
    \A base \in Bases :
        (Estimated /\ AllReadable(file_list)
                   /\ Synthetic(ExifTimes(file_list), base, interval)) =>
            /\ sub_second_times.kind = "list"
            /\ Len(sub_second_times.times) = Len(file_list)
            /\ 2 * Abs(sub_second_times.times[1] - base) <= onesecond
            /\ \A i \in 1..Len(file_list) :
                 sub_second_times.times[i]
                     = sub_second_times.times[1] + (i - 1) * interval

C4_Witness ==
    /\ Estimated
    /\ Len(file_list) >= 3
    /\ sub_second_times.kind = "list"
    /\ \E base \in Bases :
        /\ Synthetic(ExifTimes(file_list), base, interval)
        /\ sub_second_times.times[1] # base
        /\ base % onesecond # 0

Terminal == pc \in {"done", "exited", "crashed"}

\* The run got past the exit check of line 238 and loaded the track.
Loaded == pc \in {"tag", "done"} \/ (pc = "crashed" /\ sub_second_times.kind = "list")

\* C5: the run ends with a non-zero status only when the estimator reported
\* failure; every other run reaches the end of the script with status 0.
C5_ExitStatus ==
    Terminal =>
        IF sub_second_times.kind = "None"
        THEN exit_status # 0
        ELSE pc = "done" /\ exit_status = 0

EmptySource == gpx_tracks = <<>> /\ gpx_waypoints = <<>>

OutOfRangeFor(k) ==
    interpolate_lat_lon(gpx, sub_second_times.times[k] - time_offset, 0).kind
        = "out_of_range"

\* C7: when interpolation for image k raises the out-of-range error, no
\* metadata is written for k, the run goes on, and every image after k gets
\* its call, in list order.
C7_SkipContinues ==
    \A k \in Range(calls) :
        OutOfRangeFor(k) =>
            /\ k \notin Range(written)
            /\ pc \in {"tag", "done"}
            /\ calls = [i \in 1..Len(calls) |-> i]
            /\ pc = "tag" => idx = Len(calls) + 1
            /\ pc = "done" => Len(calls) = Len(file_list)

C7_Witness ==
    /\ pc = "done"
    /\ Len(file_list) >= 3
    /\ 1 \in Range(calls) /\ OutOfRangeFor(1)
    /\ 2 \in Range(written)
    /\ 3 \in Range(skipped)

\* C8: an image whose DateTimeOriginal is absent or unreadable is skipped
\* and the batch goes on; that image does not abort the run.
C8_BadCaptureTimeSkipped ==
    (pc # "estimate" /\ \E i \in 1..Len(file_list) : file_list[i].dto.st # "ok")
        => pc # "crashed"

\* C9: when the estimator reports failure the run halts at once: no image
\* is handed to add_exif_using_timestamp and no metadata is ever written.
C9_NoWriteAfterFailure ==
    sub_second_times.kind = "None" =>
        (pc = "exited" /\ calls = <<>> /\ written = <<>>)

C9_Witness ==
    sub_second_times.kind = "None" /\ pc = "exited" /\ Len(file_list) >= 2

\* C10: get_lat_lon_time returns exactly the track points and the waypoints
\* (same multiset, length the sum of both) in non-decreasing order of time.
C10_MergedAndSorted ==
    pc = "tag" =>
        LET given == AppendAll(gpx_tracks \o gpx_waypoints, use_localtime)
        IN  /\ Len(gpx) = Len(gpx_tracks) + Len(gpx_waypoints)
            /\ \A p \in Range(gpx) \cup Range(given) : Count(p, gpx) = Count(p, given)
            /\ \A i \in 1..(Len(gpx) - 1) : gpx[i][1] <= gpx[i + 1][1]

C10_Witness ==
    /\ pc = "tag"
    /\ Len(gpx_tracks) >= 2 /\ Len(gpx_waypoints) >= 1
    /\ gpx_waypoints[1] \in Range(gpx_tracks)
    /\ gpx # AppendAll(gpx_tracks \o gpx_waypoints, use_localtime)
    /\ use_localtime

====
